---- MODULE Spec2Model ----
(***************************************************************************)
(* Model of app.py: a Flask application that keeps users, questionnaire    *)
(* templates, questions, assessments and answers in a SQLite database     *)
(* through SQLAlchemy, behind Flask-Login's session gate.                  *)
(*                                                                         *)
(* Each table is a function from the primary keys in use to the row.       *)
(* Python's None is the string NONE; the other form values are strings.    *)
(* Spec runs one request at a time, each handler as one action.  SpecTx    *)
(* runs the two handlers that read and then write (register,               *)
(* assessment_new) as a transaction in steps, concurrently with readers.   *)
(***************************************************************************)
EXTENDS Integers, Sequences, FiniteSets, TLC

VARIABLES
    users,        \* table users (class User): id -> [username, password_hash]
    templates,    \* table templates (class Template)
    questions,    \* table questions (class Question)
    assessments,  \* table assessments (class Assessment)
    answers,      \* table answers (class Answer)
    session,      \* id of the user Flask-Login holds in the session, 0 for none
    request,      \* the request being handled
    response,     \* the response being sent
    lastId,       \* history: per table, the largest key ever given to a row
    ops,          \* history: number of requests that changed a table or the session
    tx,           \* per worker, the open SQLAlchemy session of its request
    seen          \* what the view being answered read for its page

vars == <<users, templates, questions, assessments, answers,
          session, request, response, lastId, ops, tx, seen>>

db == <<users, templates, questions, assessments, answers>>

----------------------------------------------------------------------------
(* Bounds of the model *)

\* number of requests that change a table or the session
MaxOps == 4
\* number of seeded questions, counted from the last, that requests address
Window == 1
\* most question_<id> fields a submitted assessment form carries
MaxFields == 1

----------------------------------------------------------------------------
(* Values *)

NONE == "<None>"

\* request.form.get(...) of a text field: absent, blank, or a value
FormTexts == {NONE, "", "x"}
Usernames == {NONE, "", "u"}
Passwords == {NONE, "", "pw"}
\* the salts generate_password_hash may draw
Salts == {"s1"}

\* a truthiness test that takes the empty string for a value
TruthyBlank(s) == s # NONE

\* a truthiness test that takes None for a value
TruthyNone(s) == s # ""

\* Python truthiness of an optional string: `if s` / `not s`
Truthy(s) == s # NONE /\ s # ""

Max(S) == CHOOSE m \in S : \A x \in S : x <= m

\* ascending list of a finite set of integers (SQLite returns rows of a
\* table scan in rowid order)
RECURSIVE Ascending(_)
Ascending(S) ==
    IF S = {} THEN <<>>
    ELSE LET m == Max(S) IN Append(Ascending(S \ {m}), m)

\* extension of a table by one row
Insert(tbl, id, row) == [i \in DOMAIN tbl \cup {id} |-> IF i = id THEN row ELSE tbl[i]]

\* removal of a row
Delete(tbl, id) == [i \in DOMAIN tbl \ {id} |-> tbl[i]]

\* the key SQLite gives a row inserted without one into a table whose key is
\* INTEGER PRIMARY KEY without AUTOINCREMENT: one more than the largest key
\* in use
NextId(tbl) == IF DOMAIN tbl = {} THEN 1 ELSE Max(DOMAIN tbl) + 1

----------------------------------------------------------------------------
(* Passwords *)

\* the digest of a password under a salt; injective in both
Digest(salt, password) == <<"pbkdf2", salt, password>>

\* a comparison that never looks at the digest
check_password_hash_any(pwhash, password) == TRUE

generate_password_hash(password, salt) ==
    [salt |-> salt, digest |-> Digest(salt, password)]

check_password_hash(pwhash, password) ==
    Digest(pwhash.salt, password) = pwhash.digest

\* User.check_password
check_password(user, password) == check_password_hash(user.password_hash, password)

\* User.query.filter_by(username=username): a None username compares with
\* IS NULL, which no stored row satisfies
UsersNamed(username) ==
    IF username = NONE THEN {}
    ELSE {i \in DOMAIN users : users[i].username = username}

----------------------------------------------------------------------------
(* Requests and responses *)

\* the request being handled: the view it is routed to, its method, and the
\* URL and form values the handler reads
Req(route, method, args) == [route |-> route, method |-> method, args |-> args]

NoRequest == Req(NONE, NONE, <<>>)

\* redirect(url_for(...)) after flash(...); the URL is its path segments
Redirect(route, location, flash) ==
    [route |-> route, status |-> 302, location |-> location, flash |-> flash]

\* render_template(page)
Render(route, page) ==
    [route |-> route, status |-> 200, location |-> <<page>>, flash |-> NONE]

NotFound(route) ==
    [route |-> route, status |-> 404, location |-> <<>>, flash |-> NONE]

\* no request is being answered
NoResponse ==
    [route |-> NONE, status |-> 0, location |-> <<>>, flash |-> NONE]

\* an exception that no handler catches
ServerError(route) ==
    [route |-> route, status |-> 500, location |-> <<>>, flash |-> NONE]

\* login_manager.unauthorized() with login_view = "login"
Unauthorized(route) ==
    Redirect(route, <<"/login">>, "Please log in to access this page.")

\* a gate that lets every request through
AuthenticatedAlways == TRUE

\* login_required: the view runs only when current_user.is_authenticated
Authenticated == session # 0

----------------------------------------------------------------------------
(* Seed *)

dd_questions ==
    << "What is the legal name of the vendor?",
       "Describe the services the vendor will provide.",
       "Will the vendor process personal data?",
       "Will the vendor process special categories of personal data?",
       "Where will the data be stored and processed?",
       "Does the vendor have security certifications?" >>

dpia_questions ==
    << "Describe the processing activity.",
       "What types of personal data are processed?",
       "Who are the data subjects?",
       "What risks exist?",
       "What safeguards are implemented?",
       "Any data transfer outside the EEA?" >>

\* Question(template_id=..., text=..., help_text=..., question_type=...);
\* required and options_json take their column defaults
Question(template_id, text, help_text, question_type) ==
    [template_id |-> template_id, text |-> text, help_text |-> help_text,
     required |-> TRUE, question_type |-> question_type, options_json |-> NONE]

Template(name, template_type, description) ==
    [name |-> name, template_type |-> template_type, description |-> description]

\* the rows a loop `for q in texts: db.session.add(Question(...))` appends to qs
RECURSIVE AddQuestions(_, _, _)
AddQuestions(qs, template_id, texts) ==
    IF texts = <<>> THEN qs
    ELSE AddQuestions(Insert(qs, NextId(qs), Question(template_id, Head(texts), NONE, "textarea")),
                      template_id, Tail(texts))

\* seed_default_templates() on the empty database that db.create_all() makes
SeedTemplates ==
    LET t1 == Insert(<<>>, NextId(<<>>),
                     Template("Third-Party Due Diligence Assessment", "Due Diligence",
                              "Basic vendor due diligence questionnaire."))
    IN Insert(t1, NextId(t1),
              Template("Data Protection Impact Assessment (DPIA)", "DPIA",
                       "High-level DPIA for internal products."))

SeedQuestions ==
    AddQuestions(AddQuestions(<<>>, 1, dd_questions), 2, dpia_questions)

\* the concurrent requests SpecTx runs
Workers == {"w1", "w2"}

\* a worker with no request
IdleWorker ==
    [pc |-> "idle", request |-> NoRequest, id |-> 0, row |-> NONE, snapshot |-> <<>>]

NoTx == [w \in Workers |-> IdleWorker]

\* nothing read yet
NoSeen == [route |-> NONE, ids |-> {}, fields |-> {}, partial |-> FALSE]

Init ==
    /\ users = <<>>
    /\ templates = SeedTemplates
    /\ questions = SeedQuestions
    /\ assessments = <<>>
    /\ answers = <<>>
    /\ session = 0
    /\ request = NoRequest
    /\ response = NoResponse
    /\ lastId = [users |-> 0, templates |-> Max(DOMAIN SeedTemplates),
                 questions |-> Max(DOMAIN SeedQuestions),
                 assessments |-> 0, answers |-> 0]
    /\ ops = 0
    /\ tx = NoTx
    /\ seen = NoSeen

----------------------------------------------------------------------------
(* Handlers, one request at a time *)

\* the server takes a request once the response to the last one is sent
Idle == response = NoResponse /\ \A w \in Workers : tx[w].pc = "idle"

\* the response goes out to the client
respond ==
    /\ response # NoResponse
    /\ response' = NoResponse
    /\ request' = NoRequest
    /\ seen' = NoSeen
    /\ UNCHANGED <<users, templates, questions, assessments, answers,
                   session, lastId, ops, tx>>

\* what a request that writes nothing leaves alone
NoWrite == UNCHANGED <<users, templates, questions, assessments, answers, lastId, ops>>

\* a request the gate turns away
Refuse(route) ==
    /\ response' = Unauthorized(route)
    /\ NoWrite
    /\ UNCHANGED <<session, tx, seen>>

\* a username column declared without unique=True
UserInsertFailsNotNull(username) == username = NONE

\* the NOT NULL and UNIQUE constraints of users.username, checked by the
\* INSERT that db.session.commit() flushes
UserInsertFails(username) ==
    \/ username = NONE
    \/ \E i \in DOMAIN users : users[i].username = username

\* GET /register
register_get ==
    /\ Idle
    /\ request' = Req("register", "GET", <<>>)
    /\ response' = Render("register", "register.html")
    /\ NoWrite
    /\ UNCHANGED <<session, tx, seen>>

\* POST /register
register(username, password, salt) ==
    /\ Idle
    /\ request' = Req("register", "POST", [username |-> username, password |-> password])
    /\ UNCHANGED <<templates, questions, assessments, answers, session, tx, seen>>
    /\ IF UsersNamed(username) # {}
       THEN /\ response' = Redirect("register", <<"/register">>, "Username already exists")
            /\ UNCHANGED <<users, lastId, ops>>
       ELSE IF password = NONE \/ UserInsertFails(username)
       THEN \* generate_password_hash(None) raises; a NULL username violates NOT NULL
            /\ response' = ServerError("register")
            /\ UNCHANGED <<users, lastId, ops>>
       ELSE /\ ops < MaxOps
            /\ ops' = ops + 1
            /\ users' = Insert(users, NextId(users),
                               [username |-> username,
                                password_hash |-> generate_password_hash(password, salt)])
            /\ lastId' = [lastId EXCEPT !.users = NextId(users)]
            /\ response' = Redirect("register", <<"/login">>,
                                    "User created successfully. Please login.")

\* GET /login
login_get ==
    /\ Idle
    /\ request' = Req("login", "GET", <<>>)
    /\ response' = Render("login", "login.html")
    /\ NoWrite
    /\ UNCHANGED <<session, tx, seen>>

\* POST /login
login(username, password) ==
    /\ Idle
    /\ request' = Req("login", "POST", [username |-> username, password |-> password])
    /\ UNCHANGED <<users, templates, questions, assessments, answers, lastId, tx, seen>>
    /\ IF UsersNamed(username) = {}
       THEN /\ response' = Redirect("login", <<"/login">>, "Invalid username or password")
            /\ UNCHANGED <<session, ops>>
       ELSE LET id == CHOOSE i \in UsersNamed(username) : TRUE IN
            IF password = NONE
            THEN \* check_password_hash(pwhash, None) raises
                 /\ response' = ServerError("login")
                 /\ UNCHANGED <<session, ops>>
            ELSE IF check_password(users[id], password)
            THEN /\ ops < MaxOps
                 /\ ops' = ops + 1
                 /\ session' = id
                 /\ response' = Redirect("login", <<"/main">>, NONE)
            ELSE /\ response' = Redirect("login", <<"/login">>, "Invalid username or password")
                 /\ UNCHANGED <<session, ops>>

\* GET /logout
logout ==
    /\ Idle
    /\ request' = Req("logout", "GET", <<>>)
    /\ IF ~Authenticated THEN Refuse("logout")
       ELSE /\ ops < MaxOps
            /\ ops' = ops + 1
            /\ session' = 0
            /\ response' = Redirect("logout", <<"/login">>, NONE)
            /\ UNCHANGED <<users, templates, questions, assessments, answers, lastId, tx, seen>>

\* a gated view that only reads
ReadOnly(route, args, resp) ==
    /\ Idle
    /\ request' = Req(route, "GET", args)
    /\ IF ~Authenticated THEN Refuse(route)
       ELSE /\ response' = resp
            /\ NoWrite
            /\ UNCHANGED <<session, tx, seen>>

\* GET /main
main == ReadOnly("main", <<>>, Render("main", "index.html"))

\* GET /
index == ReadOnly("index", <<>>, Redirect("index", <<"/main">>, NONE))

\* GET /templates
templates_list == ReadOnly("templates_list", <<>>, Render("templates_list", "templates_list.html"))

\* GET /templates/new
template_new_get == ReadOnly("template_new", <<>>, Render("template_new", "template_edit.html"))

\* POST /templates/new
template_new(name, template_type, description) ==
    /\ Idle
    /\ request' = Req("template_new", "POST", [name |-> name, template_type |-> template_type,
                                              description |-> description])
    /\ IF ~Authenticated THEN Refuse("template_new")
       ELSE /\ UNCHANGED <<users, questions, assessments, answers, session, tx, seen>>
            /\ IF ~Truthy(name) \/ ~Truthy(template_type)
               THEN /\ response' = Redirect("template_new", <<"/templates/new">>,
                                            "Name and type are required.")
                    /\ UNCHANGED <<templates, lastId, ops>>
               ELSE /\ ops < MaxOps
                    /\ templates' = Insert(templates, NextId(templates),
                                           Template(name, template_type, description))
                    /\ lastId' = [lastId EXCEPT !.templates = NextId(templates)]
                    /\ ops' = ops + 1
                    /\ response' = Redirect("template_new", <<"/templates", NextId(templates)>>,
                                            "Template created.")

\* GET /templates/<template_id>
template_edit_get(template_id) ==
    ReadOnly("template_edit", [template_id |-> template_id],
             IF template_id \in DOMAIN templates
             THEN Render("template_edit", "template_edit.html")
             ELSE NotFound("template_edit"))

\* POST /templates/<template_id>: add a question
template_edit(template_id, q_text, q_help, q_type) ==
    /\ Idle
    /\ request' = Req("template_edit", "POST", [template_id |-> template_id, question_text |-> q_text,
                                               help_text |-> q_help, question_type |-> q_type])
    /\ IF ~Authenticated THEN Refuse("template_edit")
       ELSE /\ UNCHANGED <<users, templates, assessments, answers, session, tx, seen>>
            /\ IF template_id \notin DOMAIN templates
               THEN /\ response' = NotFound("template_edit")
                    /\ UNCHANGED <<questions, lastId, ops>>
               ELSE IF ~Truthy(q_text)
               THEN /\ response' = Redirect("template_edit", <<"/templates", template_id>>, NONE)
                    /\ UNCHANGED <<questions, lastId, ops>>
               ELSE /\ ops < MaxOps
                    /\ questions' = Insert(questions, NextId(questions),
                                           Question(template_id, q_text, q_help, q_type))
                    /\ lastId' = [lastId EXCEPT !.questions = Max({@, NextId(questions)})]
                    /\ ops' = ops + 1
                    /\ response' = Redirect("template_edit", <<"/templates", template_id>>,
                                            "Question added.")

\* a delete that cascades from the question to its answers
answers_cascade_delete(ans, question_id) ==
    [i \in {j \in DOMAIN ans : ans[j].question_id # question_id} |-> ans[i]]

\* what db.session.delete(q) does to the answers table: Answer.question is
\* a plain many-to-one with no backref and no cascade, and SQLite does not
\* enforce the foreign key, so the rows stay as they are
answers_after_delete(ans, question_id) == ans

\* POST /templates/<template_id>/questions/<question_id>/delete
question_delete(template_id, question_id) ==
    /\ Idle
    /\ request' = Req("question_delete", "POST", [template_id |-> template_id,
                                                 question_id |-> question_id])
    /\ IF ~Authenticated THEN Refuse("question_delete")
       ELSE /\ UNCHANGED <<users, templates, assessments, session, lastId, tx, seen>>
            /\ IF question_id \notin DOMAIN questions
               THEN /\ response' = NotFound("question_delete")
                    /\ UNCHANGED <<questions, answers, ops>>
               ELSE /\ ops < MaxOps
                    /\ questions' = Delete(questions, question_id)
                    /\ answers' = answers_after_delete(answers, question_id)
                    /\ ops' = ops + 1
                    /\ response' = Redirect("question_delete", <<"/templates", template_id>>,
                                            "Question deleted.")

\* GET /templates/<template_id>/questions/<question_id>/edit
question_edit_get(template_id, question_id) ==
    ReadOnly("question_edit", [template_id |-> template_id, question_id |-> question_id],
             IF template_id \in DOMAIN templates /\ question_id \in DOMAIN questions
             THEN Render("question_edit", "question_edit.html")
             ELSE NotFound("question_edit"))

\* POST /templates/<template_id>/questions/<question_id>/edit
question_edit(template_id, question_id, text, help_text, question_type) ==
    /\ Idle
    /\ request' = Req("question_edit", "POST", [template_id |-> template_id, question_id |-> question_id,
                                               text |-> text, help_text |-> help_text,
                                               question_type |-> question_type])
    /\ IF ~Authenticated THEN Refuse("question_edit")
       ELSE /\ UNCHANGED <<users, templates, assessments, answers, session, lastId, tx, seen>>
            /\ IF template_id \notin DOMAIN templates \/ question_id \notin DOMAIN questions
               THEN /\ response' = NotFound("question_edit")
                    /\ UNCHANGED <<questions, ops>>
               ELSE IF text = NONE
               THEN \* questions.text is NOT NULL: the UPDATE fails at commit
                    /\ response' = ServerError("question_edit")
                    /\ UNCHANGED <<questions, ops>>
               ELSE /\ ops < MaxOps
                    /\ questions' = [questions EXCEPT ![question_id] =
                                        [@ EXCEPT !.text = text, !.help_text = help_text,
                                                  !.question_type = question_type]]
                    /\ ops' = ops + 1
                    /\ response' = Redirect("question_edit", <<"/templates", template_id>>,
                                            "Question updated.")

\* GET /assessments
assessments_list ==
    ReadOnly("assessments_list", <<>>, Render("assessments_list", "assessments_list.html"))

\* a query that forgets the filter
QuestionsOfAll(qs, template_id) == Ascending(DOMAIN qs)

\* Question.query.filter_by(template_id=template.id).all()
QuestionsOf(qs, template_id) ==
    Ascending({q \in DOMAIN qs : qs[q].template_id = template_id})

\* request.form.get(f"question_{q.id}")
FormGet(form, question_id) ==
    IF question_id \in DOMAIN form THEN form[question_id] ELSE NONE

Answer(assessment_id, question_id, answer_text) ==
    [assessment_id |-> assessment_id, question_id |-> question_id,
     answer_text |-> answer_text]

\* the rows the loop `for q in questions: db.session.add(Answer(...))` appends
RECURSIVE AddAnswers(_, _, _, _)
AddAnswers(ans, assessment_id, qseq, form) ==
    IF qseq = <<>> THEN ans
    ELSE AddAnswers(Insert(ans, NextId(ans),
                           Answer(assessment_id, Head(qseq), FormGet(form, Head(qseq)))),
                    assessment_id, Tail(qseq), form)

Assessment(template_id, name, vendor_name, product_name) ==
    [template_id |-> template_id, name |-> name,
     vendor_name |-> vendor_name, product_name |-> product_name]

\* GET /assessments/new/<template_id>
assessment_new_get(template_id) ==
    ReadOnly("assessment_new", [template_id |-> template_id],
             IF template_id \in DOMAIN templates
             THEN Render("assessment_new", "assessment_new.html")
             ELSE NotFound("assessment_new"))

\* POST /assessments/new/<template_id>
assessment_new(template_id, name, vendor_name, product_name, form) ==
    /\ Idle
    /\ request' = Req("assessment_new", "POST", [template_id |-> template_id, assessment_name |-> name,
                                                vendor_name |-> vendor_name,
                                                product_name |-> product_name, questions |-> form])
    /\ IF ~Authenticated THEN Refuse("assessment_new")
       ELSE /\ UNCHANGED <<users, templates, questions, session, tx, seen>>
            /\ IF template_id \notin DOMAIN templates
               THEN /\ response' = NotFound("assessment_new")
                    /\ UNCHANGED <<assessments, answers, lastId, ops>>
               ELSE IF ~Truthy(name)
               THEN /\ response' = Redirect("assessment_new", <<"/assessments/new", template_id>>,
                                            "Assessment name is required.")
                    /\ UNCHANGED <<assessments, answers, lastId, ops>>
               ELSE LET id == NextId(assessments)
                        added == AddAnswers(answers, id, QuestionsOf(questions, template_id), form)
                    IN /\ ops < MaxOps
                       /\ assessments' = Insert(assessments, id,
                                                Assessment(template_id, name, vendor_name, product_name))
                       /\ answers' = added
                       /\ lastId' = [lastId EXCEPT !.assessments = id,
                                                   !.answers = IF DOMAIN added = {} THEN @
                                                               ELSE Max(DOMAIN added)]
                       /\ ops' = ops + 1
                       /\ response' = Redirect("assessment_new", <<"/assessments", id>>,
                                               "Assessment saved.")

\* GET /assessments/<assessment_id>
assessment_view(assessment_id) ==
    ReadOnly("assessment_view", [assessment_id |-> assessment_id],
             IF assessment_id \in DOMAIN assessments
             THEN Render("assessment_view", "assessment_view.html")
             ELSE NotFound("assessment_view"))

----------------------------------------------------------------------------
(* Requests *)

\* the ids a URL names: every template ever made and one that never was;
\* the last Window seeded questions, every later question, and one more
TemplateIds == 1..(lastId.templates + 1)
QuestionIds == (Len(dd_questions) + Len(dpia_questions) - Window + 1)..(lastId.questions + 1)
AssessmentIds == 1..(lastId.assessments + 1)

\* submitted question_<id> fields: a value for each of at most MaxFields ids
Forms ==
    UNION {[S -> {"yes"}] : S \in {S \in SUBSET QuestionIds : Cardinality(S) <= MaxFields}}

Next ==
    \/ respond
    \/ register_get
    \/ \E u \in Usernames, p \in Passwords, s \in Salts : register(u, p, s)
    \/ login_get
    \/ \E u \in Usernames, p \in Passwords : login(u, p)
    \/ logout
    \/ main
    \/ index
    \/ templates_list
    \/ template_new_get
    \/ \E n \in FormTexts, t \in FormTexts, d \in {NONE} : template_new(n, t, d)
    \/ \E t \in TemplateIds : template_edit_get(t)
    \/ \E t \in TemplateIds, x \in FormTexts : template_edit(t, x, NONE, "text")
    \/ \E t \in TemplateIds, q \in QuestionIds : question_delete(t, q)
    \/ \E t \in TemplateIds, q \in QuestionIds : question_edit_get(t, q)
    \/ \E t \in TemplateIds, q \in QuestionIds, x \in FormTexts :
          question_edit(t, q, x, NONE, "text")
    \/ assessments_list
    \/ \E t \in TemplateIds : assessment_new_get(t)
    \/ \E t \in TemplateIds, n \in FormTexts, f \in Forms :
          assessment_new(t, n, NONE, NONE, f)
    \/ \E a \in AssessmentIds : assessment_view(a)

Spec == Init /\ [][Next]_vars

----------------------------------------------------------------------------
(* Concurrent requests.  Each worker has its own SQLAlchemy session, that  *)
(* is its own SQLite connection and transaction: the rows it adds are in   *)
(* the tables only once its db.session.commit() returns.  SQLite lets one  *)
(* connection write at a time: the first INSERT of a transaction takes the *)
(* write lock and the commit gives it back.                                *)

\* the worker has flushed an INSERT and not yet committed
Writing(w) == tx[w].pc = "answers"

WriteLockFree == \A w \in Workers : ~Writing(w)

\* a flush that other connections see at once
AfterFlushVisible(tbl, id, row) == Insert(tbl, id, row)

\* what db.session.flush() puts in the table other connections read:
\* nothing before the commit
AfterFlush(tbl, id, row) == tbl

\* the handler of worker w returns: its response is the one being sent
Finish(w, req, resp) ==
    /\ response = NoResponse
    /\ tx' = [tx EXCEPT ![w] = IdleWorker]
    /\ request' = req
    /\ response' = resp

\* POST /register up to the query of line 144 and set_password of line 149
tx_register(w, username, password, salt) ==
    LET req == Req("register", "POST", [username |-> username, password |-> password]) IN
    /\ tx[w].pc = "idle"
    /\ UNCHANGED <<users, templates, questions, assessments, answers,
                   session, lastId, ops, seen>>
    /\ IF UsersNamed(username) # {}
       THEN Finish(w, req, Redirect("register", <<"/register">>, "Username already exists"))
       ELSE IF password = NONE
       THEN Finish(w, req, ServerError("register"))
       ELSE /\ tx' = [tx EXCEPT ![w] = [IdleWorker EXCEPT !.pc = "register", !.request = req,
                        !.row = [username |-> username,
                                 password_hash |-> generate_password_hash(password, salt)]]]
            /\ UNCHANGED <<request, response>>

\* POST /register, db.session.commit() of line 151: the INSERT and the commit
tx_register_commit(w) ==
    /\ tx[w].pc = "register"
    /\ WriteLockFree
    /\ UNCHANGED <<templates, questions, assessments, answers, session, seen>>
    /\ IF UserInsertFails(tx[w].row.username)
       THEN \* IntegrityError, uncaught
            /\ Finish(w, tx[w].request, ServerError("register"))
            /\ UNCHANGED <<users, lastId, ops>>
       ELSE /\ ops < MaxOps
            /\ ops' = ops + 1
            /\ users' = Insert(users, NextId(users), tx[w].row)
            /\ lastId' = [lastId EXCEPT !.users = NextId(users)]
            /\ Finish(w, tx[w].request,
                      Redirect("register", <<"/login">>,
                               "User created successfully. Please login."))

\* POST /assessments/new/<template_id> up to db.session.flush() of line 308
tx_assessment_new(w, template_id, name, vendor_name, product_name, form) ==
    LET req == Req("assessment_new", "POST",
                   [template_id |-> template_id, assessment_name |-> name,
                    vendor_name |-> vendor_name, product_name |-> product_name,
                    questions |-> form]) IN
    /\ tx[w].pc = "idle"
    /\ UNCHANGED <<users, templates, questions, answers, session, lastId, ops, seen>>
    /\ IF ~Authenticated
       THEN Finish(w, req, Unauthorized("assessment_new")) /\ UNCHANGED assessments
       ELSE IF template_id \notin DOMAIN templates
       THEN Finish(w, req, NotFound("assessment_new")) /\ UNCHANGED assessments
       ELSE IF ~Truthy(name)
       THEN /\ Finish(w, req,
                      Redirect("assessment_new", <<"/assessments/new", template_id>>,
                               "Assessment name is required."))
            /\ UNCHANGED assessments
       ELSE LET id == NextId(assessments)
                row == Assessment(template_id, name, vendor_name, product_name)
            IN /\ WriteLockFree
               /\ ops < MaxOps
               /\ assessments' = AfterFlush(assessments, id, row)
               /\ tx' = [tx EXCEPT ![w] = [IdleWorker EXCEPT !.pc = "answers",
                             !.request = req, !.id = id, !.row = row,
                             !.snapshot = QuestionsOf(questions, template_id)]]
               /\ UNCHANGED <<request, response>>

\* the loop of lines 310-318 and db.session.commit() of line 320: the
\* Answer rows join the session, and the commit writes them
tx_commit(w) ==
    /\ Writing(w)
    /\ assessments' = Insert(assessments, tx[w].id, tx[w].row)
    /\ answers' = AddAnswers(answers, tx[w].id, tx[w].snapshot, tx[w].request.args.questions)
    /\ lastId' = [lastId EXCEPT !.assessments = tx[w].id,
                                !.answers = IF DOMAIN answers' = {} THEN @
                                            ELSE Max(DOMAIN answers')]
    /\ ops' = ops + 1
    /\ Finish(w, tx[w].request,
              Redirect("assessment_new", <<"/assessments", tx[w].id>>, "Assessment saved."))
    /\ UNCHANGED <<users, templates, questions, session, seen>>

\* the assessment is of a transaction that has not committed
Uncommitted(a) == \E w \in Workers : Writing(w) /\ tx[w].id = a

\* {ans.question_id: ans for ans in assessment.answers}, as pairs
answers_by_question(assessment_id) ==
    {<<answers[i].question_id, answers[i].answer_text>> :
        i \in {j \in DOMAIN answers : answers[j].assessment_id = assessment_id}}

\* a gated read made while the workers' requests are in flight; obs is
\* what the view hands to its page
Read(route, args, resp, obs) ==
    /\ response = NoResponse
    /\ request' = Req(route, "GET", args)
    /\ IF ~Authenticated
       THEN response' = Unauthorized(route) /\ seen' = NoSeen
       ELSE response' = resp /\ seen' = obs
    /\ UNCHANGED <<users, templates, questions, assessments, answers,
                   session, lastId, ops, tx>>

\* GET /main: Assessment.query.count()
tx_main ==
    Read("main", <<>>, Render("main", "index.html"),
         [route |-> "main", ids |-> DOMAIN assessments, fields |-> {},
          partial |-> \E a \in DOMAIN assessments : Uncommitted(a)])

\* GET /assessments: Assessment.query.order_by(...).all()
tx_assessments_list ==
    Read("assessments_list", <<>>, Render("assessments_list", "assessments_list.html"),
         [route |-> "assessments_list", ids |-> DOMAIN assessments, fields |-> {},
          partial |-> \E a \in DOMAIN assessments : Uncommitted(a)])

\* GET /assessments/<assessment_id>
tx_assessment_view(assessment_id) ==
    IF assessment_id \in DOMAIN assessments
    THEN Read("assessment_view", [assessment_id |-> assessment_id],
              Render("assessment_view", "assessment_view.html"),
              [route |-> "assessment_view", ids |-> {assessment_id},
               fields |-> answers_by_question(assessment_id),
               partial |-> Uncommitted(assessment_id)])
    ELSE Read("assessment_view", [assessment_id |-> assessment_id],
              NotFound("assessment_view"), NoSeen)

NextTx ==
    \/ respond
    \/ \E u \in Usernames, p \in Passwords : login(u, p)
    \/ \E w \in Workers, u \in {"u"}, p \in Passwords, s \in Salts : tx_register(w, u, p, s)
    \/ \E w \in Workers : tx_register_commit(w)
    \/ \E w \in Workers, t \in TemplateIds, n \in {"", "x"}, f \in Forms :
          tx_assessment_new(w, t, n, NONE, NONE, f)
    \/ \E w \in Workers : tx_commit(w)
    \/ tx_main
    \/ tx_assessments_list
    \/ \E a \in AssessmentIds : tx_assessment_view(a)

SpecTx == Init /\ [][NextTx]_vars

----------------------------------------------------------------------------
(* Properties *)

\* the views behind login_required
Gated ==
    {"logout", "main", "index", "templates_list", "template_new", "template_edit",
     "question_delete", "question_edit", "assessments_list", "assessment_new",
     "assessment_view"}

\* this step is the handling of a request routed to `route`
Handles(route) == request.route = NONE /\ request'.route = route

HandlesPost(route) == Handles(route) /\ request'.method = "POST"

\* the password a user registered with, read back out of the stored digest
RegisteredPassword(id) == users[id].password_hash.digest[3]

\* C1: a request to any gated route made without an authenticated session
\* is answered with the redirect to /login and changes no stored User,
\* Template, Question, Assessment or Answer.
C1_GateRedirects ==
    [][ \A r \in Gated :
          (Handles(r) /\ session = 0)
          => /\ response' = Unauthorized(r)
             /\ db' = db
             /\ session' = 0 ]_vars

\* an unauthenticated POST to the delete route was turned away, after an
\* earlier session had stored an assessment
C1_Witness ==
    /\ session = 0
    /\ request.route = "question_delete"
    /\ response = Unauthorized("question_delete")
    /\ DOMAIN assessments # {}

\* C2: a successful POST /assessments/new/<t> creates one assessment and,
\* for each question the template has at that moment, exactly one answer
\* holding the submitted value for that question id or None; it creates no
\* other answer and alters no earlier one.
C2_OneAnswerPerQuestion ==
    [][ (/\ HandlesPost("assessment_new")
         /\ session # 0
         /\ request'.args.template_id \in DOMAIN templates
         /\ Truthy(request'.args.assessment_name))
        => LET t == request'.args.template_id
               form == request'.args.questions
               Q == {q \in DOMAIN questions : questions[q].template_id = t}
               made == DOMAIN assessments' \ DOMAIN assessments
               new == DOMAIN answers' \ DOMAIN answers
           IN /\ response'.flash = "Assessment saved."
              /\ Cardinality(made) = 1
              /\ \A i \in DOMAIN answers : i \in DOMAIN answers' /\ answers'[i] = answers[i]
              /\ \A i \in new : /\ answers'[i].assessment_id \in made
                                 /\ answers'[i].question_id \in Q
              /\ \A q \in Q :
                    /\ Cardinality({i \in new : answers'[i].question_id = q}) = 1
                    /\ \A i \in new :
                          answers'[i].question_id = q
                          => answers'[i].answer_text =
                                (IF q \in DOMAIN form THEN form[q] ELSE NONE) ]_vars

\* an assessment was saved with a value submitted for one question of the
\* template and none for another
C2_Witness ==
    /\ request.route = "assessment_new"
    /\ response.flash = "Assessment saved."
    /\ \E i, j \in DOMAIN answers :
          /\ answers[i].assessment_id = response.location[2]
          /\ answers[j].assessment_id = response.location[2]
          /\ answers[i].answer_text = "yes"
          /\ answers[j].answer_text = NONE

\* C3: with assessment_new running as a transaction beside readers, an
\* assessment and its answers appear in the tables in one step: an
\* assessment that becomes visible does so with one answer per question of
\* its snapshot, the answers of a visible assessment never change
\* afterwards, every visible answer belongs to a visible assessment, and
\* nothing a reader is handed comes from an uncommitted transaction.
C3_AtomicCommit ==
    [][ /\ \A i \in DOMAIN answers' : answers'[i].assessment_id \in DOMAIN assessments'
        /\ \A a \in DOMAIN assessments' :
              IF a \in DOMAIN assessments
              THEN {i \in DOMAIN answers' : answers'[i].assessment_id = a}
                     = {i \in DOMAIN answers : answers[i].assessment_id = a}
              ELSE \E w \in Workers :
                     /\ Writing(w) /\ tx[w].id = a
                     /\ Cardinality({i \in DOMAIN answers' : answers'[i].assessment_id = a})
                          = Len(tx[w].snapshot)
                     /\ \A k \in 1..Len(tx[w].snapshot) :
                           \E i \in DOMAIN answers' :
                              /\ answers'[i].assessment_id = a
                              /\ answers'[i].question_id = tx[w].snapshot[k]
        /\ ~seen'.partial ]_vars

\* a reader was shown an earlier assessment with all its answers while
\* another assessment's transaction was between its flush and its commit
C3_Witness ==
    /\ seen.route = "assessment_view"
    /\ seen.fields # {}
    /\ \E w \in Workers : Writing(w) /\ tx[w].snapshot # <<>> /\ tx[w].id \notin seen.ids

\* C4: a POST /register whose username the handler finds in the table is
\* answered with the flash 'Username already exists' and the redirect to
\* /register and stores nothing; no stored user is ever changed or removed;
\* and, however register requests interleave, no two users share a username.
C4_UsernameUnique ==
    [][ /\ (/\ HandlesPost("register")
            /\ \A w \in Workers : tx'[w].pc = tx[w].pc
            /\ \E i \in DOMAIN users : users[i].username = request'.args.username)
           => /\ response' = Redirect("register", <<"/register">>, "Username already exists")
              /\ users' = users
        /\ \A i \in DOMAIN users : i \in DOMAIN users' /\ users'[i] = users[i]
        /\ \A i, j \in DOMAIN users' :
              users'[i].username = users'[j].username => i = j ]_vars

\* a second registration of a stored username, under another password, was
\* refused, and the stored hash is still that of the first password
C4_Witness ==
    /\ request.route = "register"
    /\ response.flash = "Username already exists"
    /\ \E i \in DOMAIN users :
          /\ users[i].username = request.args.username
          /\ RegisteredPassword(i) # request.args.password

\* C5: deleting a question removes that one row of the questions table and
\* nothing else: every answer, those for the deleted question included,
\* and every assessment stays as it was.
C5_DeleteKeepsAnswers ==
    [][ (/\ HandlesPost("question_delete")
         /\ session # 0
         /\ request'.args.question_id \in DOMAIN questions)
        => /\ answers' = answers
           /\ assessments' = assessments
           /\ DOMAIN questions' = DOMAIN questions \ {request'.args.question_id}
           /\ \A q \in DOMAIN questions' : questions'[q] = questions[q] ]_vars

\* a question was deleted that a stored answer refers to
C5_Witness ==
    /\ request.route = "question_delete"
    /\ response.flash = "Question deleted."
    /\ request.args.question_id \notin DOMAIN questions
    /\ \E i \in DOMAIN answers : answers[i].question_id = request.args.question_id

\* C6: a newly created template, question, assessment or answer gets an id
\* greater than every id ever given to a row of its table.
C6_IdsNeverReused ==
    [][ /\ \A i \in DOMAIN templates' \ DOMAIN templates : i > lastId.templates
        /\ \A i \in DOMAIN questions' \ DOMAIN questions : i > lastId.questions
        /\ \A i \in DOMAIN assessments' \ DOMAIN assessments : i > lastId.assessments
        /\ \A i \in DOMAIN answers' \ DOMAIN answers : i > lastId.answers ]_vars

\* C7: for a stored user, a login with a password other than the registered
\* one leaves the session as it was; a login with the registered password
\* sets the session to that user and redirects to /main; while the session
\* is set no gated request is turned away; the session changes in login and
\* logout only; logout clears it, and from then on gated requests are
\* redirected to /login.
C7_SessionLifecycle ==
    [][ /\ (/\ HandlesPost("login")
            /\ \E i \in DOMAIN users : users[i].username = request'.args.username)
           => LET id == CHOOSE i \in DOMAIN users : users[i].username = request'.args.username
              IN IF request'.args.password = RegisteredPassword(id)
                 THEN session' = id /\ response' = Redirect("login", <<"/main">>, NONE)
                 ELSE session' = session /\ response'.location # <<"/main">>
        /\ \A r \in Gated :
              Handles(r) => IF session # 0
                            THEN response' # Unauthorized(r)
                            ELSE response' = Unauthorized(r)
        /\ (Handles("logout") /\ session # 0) => session' = 0
        /\ session' # session => (Handles("login") \/ Handles("logout")) ]_vars

\* after a login, a template made under the session, and a logout, a gated
\* request was redirected to /login
C7_Witness ==
    /\ session = 0
    /\ request.route = "templates_list"
    /\ response = Unauthorized("templates_list")
    /\ DOMAIN templates # DOMAIN SeedTemplates

\* C8: a POST /register with the username or the password absent or blank
\* stores no user and is answered by the registration form with an error,
\* not by an unhandled failure.
C8_MissingFieldsRejected ==
    [][ (/\ HandlesPost("register")
         /\ (~Truthy(request'.args.username) \/ ~Truthy(request'.args.password)))
        => /\ users' = users
           /\ response'.status # 500
           /\ response'.location = <<"/register">> ]_vars

C10_CreateFailsClean ==
    [][ (HandlesPost("assessment_new") /\ session # 0)
        => LET t == request'.args.template_id IN
           /\ t \notin DOMAIN templates
                => response' = NotFound("assessment_new") /\ db' = db
           /\ (t \in DOMAIN templates /\ request'.args.assessment_name \in {NONE, ""})
                => /\ response' = Redirect("assessment_new", <<"/assessments/new", t>>,
                                           "Assessment name is required.")
                   /\ db' = db ]_vars

\* a form with a question field and no name was refused
C10_Witness ==
    /\ request.route = "assessment_new"
    /\ request.method = "POST"
    /\ request.args.assessment_name = NONE
    /\ request.args.questions # <<>>
    /\ response.flash = "Assessment name is required."

====
